---- MODULE Spec2Model ----
(***************************************************************************)
(* A model of the two notebooks of src/forsyth-genetics (the abagen        *)
(* walkthrough and the PyTorch introduction) as they execute in a Jupyter  *)
(* kernel: one namespace shared by the cells of a notebook, cells          *)
(* executed one at a time from the kernel's request queue, statement by    *)
(* statement, and the loops of the PyTorch notebook iteration by           *)
(* iteration.  Values are tracked by kind and by the line that bound them; *)
(* the value-level behaviour of MNISTDataset and of the classifier's       *)
(* argmax is modelled by the operators of the last two sections.           *)
(***************************************************************************)
EXTENDS Integers, Sequences, FiniteSets, TLC

VARIABLES nb, ns, sel, extra, queue, running, pc, report, first,
          nTrain, nTest, it, batch, steps, trained, plotted, plotFrom,
          skipped, accepted, fs,
          file, dataset, item, dsLen,
          act, pred, label

vars == <<nb, ns, sel, extra, queue, running, pc, report, first,
          nTrain, nTest, it, batch, steps, trained, plotted, plotFrom,
          skipped, accepted, fs,
          file, dataset, item, dsLen,
          act, pred, label>>

kernelVars == <<nb, ns, sel, extra, queue, running, pc, report, first,
                nTrain, nTest, it, batch, steps, trained, plotted, plotFrom,
                skipped, accepted, fs>>
datasetVars == <<file, dataset, item, dsLen>>
netVars == <<act, pred, label>>

----------------------------------------------------------------------------
(* Bounds of the model *)

\* cells the operator runs again after the top-to-bottom pass
MaxExtra == 1
\* execute requests the kernel holds while a cell is running
MaxQueue == 1
\* full batches a modelled dataset file holds besides its last batch
MaxFull == 1
\* samples of a dataset whose items are compared value by value
MaxLen == 2
\* output units of the classifier that are not zero before the last ReLU,
\* and the largest magnitude they take
MaxActive == 2
MaxAct == 1

(* Program constants *)

batch_size == 64
GradSteps == 20
PrintEvery == 100
NAxes == 4
Threshold == 9
OutFeatures == 10

----------------------------------------------------------------------------
(* Python values and statements *)

Unbound == [kind |-> "unbound", cell |-> 0, line |-> 0]

Names == {"abagen", "files", "atlas", "expression", "reporting", "generator",
          "report", "display", "Markdown", "expression_maxprobe",
          "report_maxprobe",
          "torch", "nn", "DataLoader", "plt", "u", "np", "a", "curve", "t",
          "x", "y", "loss", "dist", "optimizer", "step_number", "x0", "y0",
          "training_labels", "training_images", "test_labels", "test_images",
          "MNISTDataset", "training_data", "test_data", "batch_size",
          "train_dataloader", "test_dataloader", "X", "fig", "axs",
          "X_batch", "y_batch", "ax", "NeuralNetwork", "model", "loss_fn",
          "size", "batch_num", "pred", "current", "label", "y_name",
          "label_name"}

\* what a use of a name needs of the value bound to it
Accepts(req, kind) ==
    CASE req = "callable" -> kind \in {"function", "class", "callable_obj"}
      [] req = "tensor"   -> kind = "tensor"
      [] OTHER            -> TRUE

Reads(names) == [i \in DOMAIN names |-> <<names[i], "any">>]
Call(name) == << <<name, "callable">> >>
Tensor(name) == << <<name, "tensor">> >>

Stmt(line, uses, binds) ==
    [line |-> line, op |-> "stmt", uses |-> uses, binds |-> binds,
     eff |-> "", file |-> "", src |-> ""]
Eff(line, uses, binds, eff) ==
    [line |-> line, op |-> "stmt", uses |-> uses, binds |-> binds,
     eff |-> eff, file |-> "", src |-> ""]
ToCsv(line, src, path) ==
    [line |-> line, op |-> "stmt", uses |-> Reads(<<src>>), binds |-> {},
     eff |-> "write", file |-> path, src |-> src]
For(line, op, uses) ==
    [line |-> line, op |-> op, uses |-> uses, binds |-> {},
     eff |-> "", file |-> "", src |-> ""]

\* the names a call of curve() and of loss() reads from the globals
CurveBody == Reads(<<"torch">>)
LossBody == Call("curve") \o CurveBody

----------------------------------------------------------------------------
(* The code cells of the abagen notebook, in notebook order *)

DefaultCsv == "Expression_AHBA_abagen_defaultparam.csv"
MaxprobeCsv == "Expression_AHBA_abagen_maxprobe.csv"
AtlasCopy == "atlas-desikankilliany_copy.csv"
Files == {DefaultCsv, MaxprobeCsv, AtlasCopy}

CellInstall == << >>
CellImportAbagen == << Stmt(23, << >>, {<<"abagen", "module">>}) >>
CellFetchMicroarray ==
    << Stmt(34, Reads(<<"abagen">>), {<<"files", "object">>}) >>
CellShowFiles == << Stmt(45, Reads(<<"files">>), {}) >>
CellFetchAtlas ==
    << Stmt(56, Reads(<<"abagen">>), {<<"atlas", "object">>}),
       Stmt(57, Reads(<<"atlas">>), {}) >>
CellGetExpression ==
    << Stmt(68, Reads(<<"abagen", "atlas">>), {<<"expression", "dataframe">>}) >>
CellShowExpression == << Stmt(79, Reads(<<"expression">>), {}) >>
CellGenReport ==
    << Stmt(90, << >>, {<<"reporting", "module">>}),
       Stmt(91, Reads(<<"reporting", "atlas">>), {<<"generator", "object">>}),
       Stmt(92, Reads(<<"generator">>), {<<"report", "str">>}) >>
CellShowReport == << Stmt(103, Reads(<<"report">>), {}) >>
CellDisplayReport ==
    << Stmt(114, << >>, {<<"display", "function">>, <<"Markdown", "class">>}),
       Stmt(115, Call("display") \o Call("Markdown") \o Reads(<<"report">>), {}) >>
CellGetExpressionMaxprobe ==
    << Stmt(127, Reads(<<"abagen", "atlas">>),
            {<<"expression_maxprobe", "dataframe">>,
             <<"report_maxprobe", "str">>}) >>
CellShowExpressionMaxprobe == << Stmt(138, Reads(<<"expression_maxprobe">>), {}) >>
CellDisplayReportMaxprobe ==
    << Stmt(149, << >>, {<<"display", "function">>, <<"Markdown", "class">>}),
       Stmt(150, Call("display") \o Call("Markdown")
                   \o Reads(<<"report_maxprobe">>), {}) >>
CellSaveExpression == << ToCsv(161, "expression", DefaultCsv) >>
CellSaveExpressionMaxprobe == << ToCsv(172, "expression_maxprobe", MaxprobeCsv) >>
CellCopyAtlas ==
    << Stmt(183, << >>, {}),
       Stmt(184, << >>, {}),
       [line |-> 185, op |-> "stmt", uses |-> << >>, binds |-> {},
        eff |-> "copy", file |-> AtlasCopy, src |-> ""] >>

AbagenCells ==
    << CellInstall, CellImportAbagen, CellFetchMicroarray, CellShowFiles,
       CellFetchAtlas, CellGetExpression, CellShowExpression, CellGenReport,
       CellShowReport, CellDisplayReport, CellGetExpressionMaxprobe,
       CellShowExpressionMaxprobe, CellDisplayReportMaxprobe,
       CellSaveExpression, CellSaveExpressionMaxprobe, CellCopyAtlas >>

----------------------------------------------------------------------------
(* The code cells of the PyTorch notebook, in notebook order *)

CellImports ==
    << Stmt(268, << >>, {<<"torch", "module">>}),
       Stmt(270, << >>, {<<"nn", "module">>}),
       Stmt(272, << >>, {<<"DataLoader", "class">>}),
       Stmt(276, << >>, {<<"plt", "module">>}) >>
CellTensor ==
    << Stmt(300, Reads(<<"torch">>), {<<"u", "tensor">>}),
       Stmt(302, Reads(<<"u">>), {}),
       Stmt(304, Reads(<<"u">>), {<<"u", "tensor">>}),
       Stmt(306, Reads(<<"u">>), {}) >>
CellMeanOfArray ==
    << Stmt(318, << >>, {<<"np", "module">>}),
       Stmt(320, Reads(<<"np">>), {<<"a", "ndarray">>}),
       Stmt(322, Reads(<<"torch">>) \o Tensor("a"), {}) >>
CellToNumpyIntoU ==
    << Stmt(334, Reads(<<"u">>), {<<"u", "ndarray">>}),
       Stmt(335, Reads(<<"a">>), {}),
       Stmt(336, Reads(<<"a">>), {}) >>
CellToNumpy ==
    << Stmt(334, Reads(<<"u">>), {<<"a", "ndarray">>}),
       Stmt(335, Reads(<<"a">>), {}),
       Stmt(336, Reads(<<"a">>), {}) >>
CellCurve ==
    << Stmt(354, << >>, {<<"curve", "function">>}),
       Stmt(360, Reads(<<"torch", "np">>), {<<"t", "tensor">>}),
       Stmt(361, Call("curve") \o Reads(<<"t">>) \o CurveBody,
            {<<"x", "tensor">>, <<"y", "tensor">>}),
       Stmt(364, Reads(<<"plt", "x", "y">>), {}),
       Stmt(366, Reads(<<"plt">>), {}),
       Stmt(367, Reads(<<"plt">>), {}) >>
CellLoss ==
    << Stmt(379, << >>, {<<"loss", "function">>}),
       Stmt(384, Reads(<<"torch">>), {<<"t", "tensor">>}),
       Stmt(385, Call("loss") \o Reads(<<"t">>) \o LossBody,
            {<<"dist", "tensor">>}),
       Stmt(386, Reads(<<"dist">>), {}) >>
CellGradient ==
    << Stmt(402, Reads(<<"torch">>), {<<"t", "tensor">>}),
       Stmt(403, Call("loss") \o Reads(<<"t">>) \o LossBody,
            {<<"dist", "tensor">>}),
       Stmt(406, Reads(<<"dist">>), {}),
       Stmt(407, Reads(<<"t">>), {}) >>
CellGradientDescent ==
    << Stmt(426, Reads(<<"torch">>), {<<"t", "tensor">>}),
       Stmt(432, Reads(<<"torch", "t">>), {<<"optimizer", "optimizer">>}),
       For(435, "for_range", << >>),
       Stmt(445, Reads(<<"t">>) \o Call("loss") \o LossBody, {}) >>
GradientDescentBody ==
    << Stmt(437, Reads(<<"optimizer">>), {}),
       Stmt(438, Call("loss") \o Reads(<<"t">>) \o LossBody,
            {<<"dist", "tensor">>}),
       Stmt(439, Reads(<<"step_number", "t", "dist">>), {}),
       Stmt(442, Reads(<<"dist">>), {}),
       Eff(443, Reads(<<"optimizer">>), {}, "opt_step") >>
CellPlotSolution ==
    << Stmt(462, Call("curve") \o Reads(<<"t">>) \o CurveBody,
            {<<"x0", "tensor">>, <<"y0", "tensor">>}),
       Stmt(465, Reads(<<"x0">>), {<<"x0", "ndarray">>}),
       Stmt(466, Reads(<<"y0">>), {<<"y0", "ndarray">>}),
       Stmt(469, Call("curve") \o Reads(<<"torch", "np">>) \o CurveBody,
            {<<"x", "tensor">>, <<"y", "tensor">>}),
       Stmt(470, Reads(<<"plt", "x", "y">>), {}),
       Stmt(472, Reads(<<"plt">>), {}),
       Stmt(473, Reads(<<"plt">>), {}),
       Stmt(475, Reads(<<"plt", "x0", "y0">>), {}) >>
CellLoadData ==
    << Stmt(520, Reads(<<"torch">>),
            {<<"training_labels", "tensor">>, <<"training_images", "tensor">>}),
       Stmt(525, Reads(<<"torch">>),
            {<<"test_labels", "tensor">>, <<"test_images", "tensor">>}) >>
CellDataset ==
    << Stmt(545, Reads(<<"torch">>), {<<"MNISTDataset", "class">>}),
       Stmt(553, Call("MNISTDataset")
                   \o Reads(<<"training_images", "training_labels">>),
            {<<"training_data", "dataset">>}),
       Stmt(554, Call("MNISTDataset") \o Reads(<<"test_images", "test_labels">>),
            {<<"test_data", "dataset">>}) >>
CellDataLoaders ==
    << Stmt(572, << >>, {<<"batch_size", "int">>}),
       Stmt(575, Call("DataLoader") \o Reads(<<"training_data", "batch_size">>),
            {<<"train_dataloader", "loader">>}),
       Stmt(576, Call("DataLoader") \o Reads(<<"test_data", "batch_size">>),
            {<<"test_dataloader", "loader">>}),
       For(579, "for_first", Reads(<<"test_dataloader">>)) >>
FirstBatchBody ==
    << Stmt(580, << >>, {}),
       Stmt(581, Reads(<<"X">>), {}),
       Stmt(582, << >>, {}),
       Stmt(583, Reads(<<"y">>), {}) >>
CellShowImages ==
    << Stmt(610, Reads(<<"plt">>), {<<"fig", "object">>, <<"axs", "ndarray">>}),
       Stmt(611, Reads(<<"axs">>), {<<"axs", "ndarray">>}),
       For(615, "for_peek", Reads(<<"train_dataloader">>)) >>
ShowImageBody ==
    << Stmt(618, Reads(<<"ax", "X">>), {}),
       Eff(619, Reads(<<"ax", "y">>), {}, "plot"),
       Stmt(620, Reads(<<"ax">>), {}) >>
CellModel ==
    << Stmt(649, Reads(<<"nn">>), {<<"NeuralNetwork", "class">>}),
       Stmt(667, Call("NeuralNetwork") \o Reads(<<"nn">>),
            {<<"model", "callable_obj">>}),
       Stmt(668, Reads(<<"model">>), {}) >>
CellOptimizer ==
    << Stmt(699, Reads(<<"nn">>), {<<"loss_fn", "callable_obj">>}),
       Stmt(700, Reads(<<"torch", "model">>), {<<"optimizer", "optimizer">>}) >>
CellTrain ==
    << Stmt(717, Reads(<<"train_dataloader">>), {<<"size", "int">>}),
       For(720, "for_train", Reads(<<"train_dataloader">>)) >>
TrainBody(batch_num) ==
    << Stmt(722, Call("model") \o Reads(<<"X">>), {<<"pred", "tensor">>}),
       Stmt(724, Call("loss_fn") \o Reads(<<"pred", "y">>),
            {<<"loss", "tensor">>}),
       Stmt(727, Reads(<<"optimizer">>), {}),
       Stmt(728, Tensor("loss"), {}),
       Eff(729, Reads(<<"optimizer">>), {}, "opt_step") >>
    \o (IF batch_num % PrintEvery = 0
        THEN << Stmt(733, Tensor("loss") \o Reads(<<"batch_num", "X">>),
                     {<<"loss", "float">>, <<"current", "int">>}),
                Stmt(734, Reads(<<"loss", "current", "size">>), {}) >>
        ELSE << >>)
CellEvaluate ==
    << Stmt(751, Reads(<<"plt">>), {<<"fig", "object">>, <<"axs", "ndarray">>}),
       Stmt(752, Reads(<<"axs">>), {<<"axs", "ndarray">>}),
       For(756, "for_eval", Reads(<<"test_dataloader">>)) >>
EvaluateBody ==
    << Stmt(762, Reads(<<"ax", "X">>), {}),
       Stmt(764, Call("model") \o Reads(<<"X">>), {<<"pred", "tensor">>}),
       Stmt(766, Reads(<<"torch", "pred">>), {<<"label", "tensor">>}),
       Stmt(769, Reads(<<"y">>), {<<"y_name", "str">>}),
       Stmt(770, Reads(<<"label">>), {<<"label_name", "str">>}),
       Eff(771, Reads(<<"ax", "label_name", "y_name">>), {}, "plot"),
       Stmt(772, Reads(<<"ax">>), {}) >>

TorchCells ==
    << CellImports, CellTensor, CellMeanOfArray, CellToNumpy, CellCurve,
       CellLoss, CellGradient, CellGradientDescent, CellPlotSolution,
       CellLoadData, CellDataset, CellDataLoaders, CellShowImages, CellModel,
       CellOptimizer, CellTrain, CellEvaluate >>

Cells == IF nb = "abagen" THEN AbagenCells ELSE TorchCells
NCells == Len(Cells)

----------------------------------------------------------------------------
(* The interpreter: name lookup, binding, and straight-line execution *)

Min(a, b) == IF a < b THEN a ELSE b

\* the exception a use raises in a namespace, or "ok"
Bad(use, env) ==
    IF env[use[1]].kind = "unbound" THEN "NameError"
    ELSE IF ~Accepts(use[2], env[use[1]].kind) THEN "TypeError"
    ELSE "ok"

FirstError(uses, env) ==
    IF \A i \in DOMAIN uses : Bad(uses[i], env) = "ok" THEN "ok"
    ELSE LET i == CHOOSE k \in DOMAIN uses :
                    /\ Bad(uses[k], env) # "ok"
                    /\ \A j \in 1..(k - 1) : Bad(uses[j], env) = "ok"
         IN  Bad(uses[i], env)

Bind(env, binds, cell, line) ==
    [n \in Names |->
        IF \E b \in binds : b[1] = n
        THEN [kind |-> (CHOOSE b \in binds : b[1] = n)[2],
              cell |-> cell, line |-> line]
        ELSE env[n]]

\* Runs the statements in order until one raises: the namespace reached, the
\* exception and its line, and the optimizer steps and plots performed.
RECURSIVE Exec(_, _, _, _)
Exec(env, stmts, cell, acc) ==
    IF stmts = << >>
    THEN [env |-> env, err |-> "ok", line |-> 0,
          steps |-> acc.steps, plots |-> acc.plots]
    ELSE LET s == Head(stmts)
             e == FirstError(s.uses, env)
         IN  IF e # "ok"
             THEN [env |-> env, err |-> e, line |-> s.line,
                   steps |-> acc.steps, plots |-> acc.plots]
             ELSE Exec(Bind(env, s.binds, cell, s.line), Tail(stmts), cell,
                       [steps |-> acc.steps + (IF s.eff = "opt_step" THEN 1 ELSE 0),
                        plots |-> acc.plots + (IF s.eff = "plot" THEN 1 ELSE 0)])

Run(env, stmts, cell) == Exec(env, stmts, cell, [steps |-> 0, plots |-> 0])

----------------------------------------------------------------------------
(* The data loaders *)

\* the sample counts of a dataset file: some full batches and then none, one
\* or half a batch more (the 60000 training samples are 937 batches and 32)
DataSizes == {k * batch_size + r : k \in 1..MaxFull,
                                   r \in {0, 1, batch_size \div 2}}

\* DataLoader(dataset, batch_size=batch_size): in order, last batch kept
NumBatchesDropLast(n) == n \div batch_size
BatchOfPadded(n, k) == [lo |-> k * batch_size, len |-> batch_size]
NumBatches(n) == (n + batch_size - 1) \div batch_size
BatchOf(n, k) == [lo |-> k * batch_size,
                  len |-> Min(batch_size, n - k * batch_size)]
NoBatch == [lo |-> 0, len |-> 0]

Draws == 0..9

\* the sample counts of the two dataset files: each varies over DataSizes
\* while the other holds one full batch (the two loaders share no code path)
InputSizes == {p \in DataSizes \X DataSizes :
                  p[1] = batch_size \/ p[2] = batch_size}

----------------------------------------------------------------------------
(* The kernel session *)

NoReport == [cell |-> 0, status |-> "none", line |-> 0]

NoDataset == [images |-> [dtype |-> "", data |-> << >>], labels |-> << >>,
              built |-> FALSE]
NoItem == [ii |-> 0, status |-> "none", dtype |-> "", image |-> 0, label |-> 0]

InitPure ==
    /\ file = << << >>, << >> >>
    /\ dataset = NoDataset
    /\ item = NoItem
    /\ dsLen = -1
    /\ act = << >>
    /\ pred = << >>
    /\ label = -1

InitScratch ==
    /\ it = 0
    /\ batch = NoBatch
    /\ steps = 0
    /\ plotted = 0
    /\ plotFrom = {}
    /\ skipped = 0
    /\ accepted = FALSE

Init ==
    /\ nb \in {"abagen", "torch"}
    /\ ns = [n \in Names |-> Unbound]
    /\ sel = 1
    /\ extra = 0
    /\ queue = << >>
    /\ running = {}
    /\ pc = 0
    /\ report = NoReport
    /\ first = [c \in 1..NCells |-> "none"]
    /\ IF nb = "torch"
       THEN \E p \in InputSizes : nTrain = p[1] /\ nTest = p[2]
       ELSE nTrain = batch_size /\ nTest = batch_size
    /\ trained = << >>
    /\ fs = [f \in Files |-> 0]
    /\ InitScratch
    /\ InitPure

Cur == CHOOSE c \in running : TRUE
AtStmt == running # {} /\ pc \in DOMAIN Cells[Cur]
CurStmt == Cells[Cur][pc]

\* Shift+Enter on the selected cell: request its execution, select the next
RunSelected ==
    /\ sel <= NCells
    /\ Len(queue) < MaxQueue
    /\ queue' = Append(queue, [cell |-> sel, again |-> FALSE])
    /\ sel' = sel + 1
    /\ UNCHANGED <<nb, ns, extra, running, pc, report, first, nTrain,
                   nTest, it, batch, steps, trained, plotted, plotFrom,
                   skipped, accepted, fs>>
    /\ UNCHANGED <<datasetVars, netVars>>

\* after the top-to-bottom pass the operator runs some cell again
RunExtra(c) ==
    /\ sel > NCells
    /\ extra < MaxExtra
    /\ Len(queue) < MaxQueue
    /\ queue' = Append(queue, [cell |-> c, again |-> TRUE])
    /\ extra' = extra + 1
    /\ UNCHANGED <<nb, ns, sel, running, pc, report, first, nTrain,
                   nTest, it, batch, steps, trained, plotted, plotFrom,
                   skipped, accepted, fs>>
    /\ UNCHANGED <<datasetVars, netVars>>

\* the kernel is single-threaded: it takes a request only when no cell runs
KernelIdleAlways == TRUE
KernelIdle == running = {}

Start ==
    /\ KernelIdle
    /\ queue # << >>
    /\ running' = running \cup {Head(queue).cell}
    /\ queue' = Tail(queue)
    /\ pc' = 1
    /\ report' = [cell |-> Head(queue).cell, status |-> "running", line |-> 0]
    /\ it' = 0
    /\ batch' = NoBatch
    /\ steps' = 0
    /\ trained' = << >>
    /\ plotted' = 0
    /\ plotFrom' = {}
    /\ skipped' = 0
    /\ accepted' = FALSE
    /\ UNCHANGED <<nb, ns, sel, extra, first, nTrain, nTest, fs>>
    /\ UNCHANGED <<datasetVars, netVars>>

\* the requests of the top-to-bottom pass that are still queued
Dropped == {i \in DOMAIN queue : ~queue[i].again}

FirstOutcome(c, status) ==
    IF first[c] = "none" THEN [first EXCEPT ![c] = status] ELSE first

RaiseAndRetry(c, e, line) ==
    /\ pc' = 1
    /\ report' = [cell |-> c, status |-> e, line |-> line]
    /\ UNCHANGED <<running, queue, first, sel>>

\* an exception leaves the cell: the kernel reports it, runs nothing of the
\* cell again and drops the requests still queued; the operator's selection
\* returns to the first cell of the pass that was dropped
Raise(c, e, line) ==
    /\ running' = {}
    /\ queue' = << >>
    /\ sel' = sel - Cardinality(Dropped)
    /\ pc' = 0
    /\ report' = [cell |-> c, status |-> e, line |-> line]
    /\ first' = FirstOutcome(c, "error")

Continue(next) ==
    /\ pc' = next
    /\ UNCHANGED <<running, queue, report, first, sel>>

Written(stmt, env) ==
    CASE stmt.eff = "write" -> [fs EXCEPT ![stmt.file] = env[stmt.src].line]
      [] stmt.eff = "copy"  -> [fs EXCEPT ![stmt.file] = stmt.line]
      [] OTHER              -> fs

\* one statement of the running cell
Step ==
    /\ AtStmt
    /\ CurStmt.op = "stmt"
    /\ LET r == Run(ns, <<CurStmt>>, Cur)
       IN  /\ ns' = r.env
           /\ IF r.err = "ok"
              THEN fs' = Written(CurStmt, ns) /\ Continue(pc + 1)
              ELSE fs' = fs /\ Raise(Cur, r.err, r.line)
    /\ UNCHANGED <<nb, extra, nTrain, nTest, it, batch, steps,
                   trained, plotted, plotFrom, skipped, accepted>>
    /\ UNCHANGED <<datasetVars, netVars>>

\* the cell's last statement has run
Finish ==
    /\ running # {}
    /\ pc = Len(Cells[Cur]) + 1
    /\ running' = {}
    /\ pc' = 0
    /\ report' = [cell |-> Cur, status |-> "ok", line |-> 0]
    /\ first' = FirstOutcome(Cur, "ok")
    /\ UNCHANGED <<nb, ns, sel, extra, queue, nTrain, nTest, it, batch,
                   steps, trained, plotted, plotFrom, skipped, accepted, fs>>
    /\ UNCHANGED <<datasetVars, netVars>>

----------------------------------------------------------------------------
(* The loops of the PyTorch notebook, one iteration at a time *)

\* for step_number in range(20): one descent step
GradStep ==
    /\ AtStmt
    /\ CurStmt.op = "for_range"
    /\ it < GradSteps
    /\ LET env1 == Bind(ns, {<<"step_number", "int">>}, Cur, CurStmt.line)
           r == Run(env1, GradientDescentBody, Cur)
       IN  /\ ns' = r.env
           /\ steps' = steps + r.steps
           /\ IF r.err = "ok"
              THEN it' = it + 1 /\ Continue(pc)
              ELSE it' = it /\ Raise(Cur, r.err, r.line)
    /\ UNCHANGED <<nb, extra, nTrain, nTest, batch, trained,
                   plotted, plotFrom, skipped, accepted, fs>>
    /\ UNCHANGED <<datasetVars, netVars>>

\* for X, y in test_dataloader: print the shapes of the first batch; break
FirstBatch ==
    /\ AtStmt
    /\ CurStmt.op = "for_first"
    /\ LET e == FirstError(CurStmt.uses, ns)
           env1 == Bind(ns, {<<"X", "tensor">>, <<"y", "tensor">>}, Cur,
                        CurStmt.line)
           r == Run(env1, FirstBatchBody, Cur)
       IN  IF e # "ok"
           THEN /\ ns' = ns /\ batch' = batch
                /\ Raise(Cur, e, CurStmt.line)
           ELSE /\ ns' = r.env
                /\ batch' = BatchOf(nTest, 0)
                /\ IF r.err = "ok" THEN Continue(pc + 1)
                                   ELSE Raise(Cur, r.err, r.line)
    /\ UNCHANGED <<nb, extra, nTrain, nTest, it, steps, trained,
                   plotted, plotFrom, skipped, accepted, fs>>
    /\ UNCHANGED <<datasetVars, netVars>>

\* for (X_batch, y_batch) in train_dataloader: plot the first images of the
\* first batch, one per axis, as zip(axs, X_batch, y_batch) pairs them; break
PeekBatch ==
    /\ AtStmt
    /\ CurStmt.op = "for_peek"
    /\ LET e == FirstError(CurStmt.uses, ns)
           b == BatchOf(nTrain, 0)
           env1 == Bind(ns, {<<"X_batch", "tensor">>, <<"y_batch", "tensor">>},
                        Cur, CurStmt.line)
           env2 == Bind(env1, {<<"ax", "object">>, <<"X", "tensor">>,
                               <<"y", "tensor">>}, Cur, 617)
           r == Run(env2, ShowImageBody, Cur)
       IN  IF e # "ok"
           THEN /\ ns' = ns /\ batch' = batch
                /\ plotted' = plotted /\ plotFrom' = plotFrom
                /\ Raise(Cur, e, CurStmt.line)
           ELSE /\ ns' = r.env
                /\ batch' = b
                /\ IF r.err = "ok"
                   THEN /\ plotted' = r.plots * Min(NAxes, b.len)
                        /\ plotFrom' = {0}
                        /\ Continue(pc + 1)
                   ELSE /\ plotted' = plotted /\ plotFrom' = plotFrom
                        /\ Raise(Cur, r.err, r.line)
    /\ UNCHANGED <<nb, extra, nTrain, nTest, it, steps, trained,
                   skipped, accepted, fs>>
    /\ UNCHANGED <<datasetVars, netVars>>

\* for (batch_num, (X, y)) in enumerate(train_dataloader): one training batch
TrainBatch ==
    /\ AtStmt
    /\ CurStmt.op = "for_train"
    /\ it < NumBatches(nTrain)
    /\ LET e == FirstError(CurStmt.uses, ns)
           b == BatchOf(nTrain, it)
           env1 == Bind(ns, {<<"batch_num", "int">>, <<"X", "tensor">>,
                             <<"y", "tensor">>}, Cur, CurStmt.line)
           r == Run(env1, TrainBody(it), Cur)
       IN  IF e # "ok"
           THEN /\ UNCHANGED <<ns, batch, steps, trained, it>>
                /\ Raise(Cur, e, CurStmt.line)
           ELSE /\ ns' = r.env
                /\ batch' = b
                /\ steps' = steps + r.steps
                /\ trained' = IF r.steps > 0 THEN Append(trained, b) ELSE trained
                /\ IF r.err = "ok"
                   THEN it' = it + 1 /\ Continue(pc)
                   ELSE it' = it /\ Raise(Cur, r.err, r.line)
    /\ UNCHANGED <<nb, extra, nTrain, nTest, plotted, plotFrom,
                   skipped, accepted, fs>>
    /\ UNCHANGED <<datasetVars, netVars>>

\* for (X_batch, y_batch) in test_dataloader: if np.random.rand() < 0.9: continue
EvalDraw ==
    /\ AtStmt
    /\ CurStmt.op = "for_eval"
    /\ ~accepted
    /\ it < NumBatches(nTest)
    /\ LET e == FirstError(CurStmt.uses, ns)
           env1 == Bind(ns, {<<"X_batch", "tensor">>, <<"y_batch", "tensor">>},
                        Cur, CurStmt.line)
           e2 == FirstError(Reads(<<"np">>), env1)
       IN  IF e # "ok"
           THEN /\ UNCHANGED <<ns, batch, it, skipped, accepted>>
                /\ Raise(Cur, e, CurStmt.line)
           ELSE /\ ns' = env1
                /\ batch' = BatchOf(nTest, it)
                /\ IF e2 # "ok"
                   THEN /\ UNCHANGED <<it, skipped, accepted>>
                        /\ Raise(Cur, e2, 759)
                   ELSE /\ \E draw \in Draws :
                             IF draw < Threshold
                             THEN /\ it' = it + 1
                                  /\ skipped' = skipped + 1
                                  /\ accepted' = FALSE
                             ELSE /\ it' = it
                                  /\ skipped' = skipped
                                  /\ accepted' = TRUE
                        /\ Continue(pc)
    /\ UNCHANGED <<nb, extra, nTrain, nTest, steps, trained,
                   plotted, plotFrom, fs>>
    /\ UNCHANGED <<datasetVars, netVars>>

\* for (ax, X, y) in zip(axs, X_batch, y_batch): one image, its estimate
\* and its title
EvalPlot ==
    /\ AtStmt
    /\ CurStmt.op = "for_eval"
    /\ accepted
    /\ plotted < Min(NAxes, batch.len)
    /\ LET env1 == Bind(ns, {<<"ax", "object">>, <<"X", "tensor">>,
                             <<"y", "tensor">>}, Cur, 761)
           r == Run(env1, EvaluateBody, Cur)
       IN  /\ ns' = r.env
           /\ plotted' = plotted + r.plots
           /\ plotFrom' = IF r.plots > 0 THEN plotFrom \cup {it} ELSE plotFrom
           /\ IF r.err = "ok" THEN Continue(pc)
                              ELSE Raise(Cur, r.err, r.line)
    /\ UNCHANGED <<nb, extra, nTrain, nTest, it, batch, steps,
                   trained, skipped, accepted, fs>>
    /\ UNCHANGED <<datasetVars, netVars>>

\* the break that ends the evaluation loop after the images of one batch
EvalBreak ==
    /\ AtStmt
    /\ CurStmt.op = "for_eval"
    /\ accepted
    /\ plotted = Min(NAxes, batch.len)
    /\ Continue(pc + 1)
    /\ UNCHANGED <<nb, ns, extra, nTrain, nTest, it, batch, steps,
                   trained, plotted, plotFrom, skipped, accepted, fs>>
    /\ UNCHANGED <<datasetVars, netVars>>

\* a loop's iterator is exhausted: the statement after the loop is next
LoopExit ==
    /\ AtStmt
    /\ \/ CurStmt.op = "for_range" /\ it = GradSteps
       \/ CurStmt.op = "for_train" /\ it = NumBatches(nTrain)
       \/ CurStmt.op = "for_eval" /\ ~accepted /\ it = NumBatches(nTest)
    /\ Continue(pc + 1)
    /\ UNCHANGED <<nb, ns, extra, nTrain, nTest, it, batch, steps,
                   trained, plotted, plotFrom, skipped, accepted, fs>>
    /\ UNCHANGED <<datasetVars, netVars>>

Next ==
    \/ RunSelected
    \/ \E c \in 1..NCells : RunExtra(c)
    \/ Start
    \/ Step
    \/ GradStep
    \/ FirstBatch
    \/ PeekBatch
    \/ TrainBatch
    \/ EvalDraw
    \/ EvalPlot
    \/ EvalBreak
    \/ LoopExit
    \/ Finish

Spec == Init /\ [][Next]_vars

----------------------------------------------------------------------------
(* MNISTDataset, value by value.  A tensor is its dtype and its data; an   *)
(* image is abstracted to one pixel.                                        *)

Pixels == {0, 255}
Labels == 0..9
Dtypes == {"uint8", "float32"}

ImageTensors == UNION {[dtype : {d}, data : [1..n -> Pixels]] :
                          d \in Dtypes, n \in 0..MaxLen}

\* Tensor.float(): the same numbers as 32-bit floats (pixels are exact)
Float(tensor) == [dtype |-> "float32", data |-> tensor.data]

\* __init__(self, images, labels)
MNISTDataset(images, labels) ==
    [images |-> Float(images), labels |-> labels, built |-> TRUE]

\* Python's tensor[ii]: negative indices count from the end
Index(seq, ii) ==
    IF 0 <= ii /\ ii < Len(seq) THEN <<"ok", seq[ii + 1]>>
    ELSE IF -Len(seq) <= ii /\ ii < 0 THEN <<"ok", seq[Len(seq) + ii + 1]>>
    ELSE <<"IndexError", 0>>

\* __getitem__(self, ii)
GetItemOffByOne(self, ii) ==
    IF Index(self.images.data, ii)[1] = "ok" /\ Index(self.labels, ii + 1)[1] = "ok"
    THEN [ii |-> ii, status |-> "ok", dtype |-> self.images.dtype,
          image |-> Index(self.images.data, ii)[2],
          label |-> Index(self.labels, ii + 1)[2]]
    ELSE [ii |-> ii, status |-> "IndexError", dtype |-> "", image |-> 0,
          label |-> 0]
GetItem(self, ii) ==
    IF Index(self.images.data, ii)[1] = "ok" /\ Index(self.labels, ii)[1] = "ok"
    THEN [ii |-> ii, status |-> "ok", dtype |-> self.images.dtype,
          image |-> Index(self.images.data, ii)[2],
          label |-> Index(self.labels, ii)[2]]
    ELSE [ii |-> ii, status |-> "IndexError", dtype |-> "", image |-> 0,
          label |-> 0]

\* __len__(self)
DatasetLen(self) == Len(self.labels)

\* the kernel of the PyTorch notebook, before any cell has run
KernelAtRest ==
    /\ nb = "torch"
    /\ ns = [n \in Names |-> Unbound]
    /\ sel = 1
    /\ extra = 0
    /\ queue = << >>
    /\ running = {}
    /\ pc = 0
    /\ report = NoReport
    /\ first = [c \in 1..NCells |-> "none"]
    /\ nTrain = batch_size
    /\ nTest = batch_size
    /\ trained = << >>
    /\ fs = [f \in Files |-> 0]
    /\ InitScratch

NetAtRest ==
    /\ act = << >>
    /\ pred = << >>
    /\ label = -1

\* torch.load returns the pair (labels, images) of a dataset file
InitDataset ==
    /\ KernelAtRest
    /\ NetAtRest
    /\ \E images \in ImageTensors :
         \E labels \in [1..Len(images.data) -> Labels] :
            file = <<labels, images>>
    /\ dataset = NoDataset
    /\ item = NoItem
    /\ dsLen = -1

\* (labels, images) = torch.load(...); data = MNISTDataset(images, labels)
Construct ==
    /\ ~dataset.built
    /\ LET labels == file[1]
           images == file[2]
       IN  dataset' = MNISTDataset(images, labels)
    /\ UNCHANGED <<file, item, dsLen>>
    /\ UNCHANGED <<kernelVars, netVars>>

Fetch(ii) ==
    /\ dataset.built
    /\ item' = GetItem(dataset, ii)
    /\ UNCHANGED <<file, dataset, dsLen>>
    /\ UNCHANGED <<kernelVars, netVars>>

Measure ==
    /\ dataset.built
    /\ dsLen' = DatasetLen(dataset)
    /\ UNCHANGED <<file, dataset, item>>
    /\ UNCHANGED <<kernelVars, netVars>>

NextDataset ==
    \/ Construct
    \/ \E ii \in (-MaxLen - 1)..(MaxLen + 1) : Fetch(ii)
    \/ Measure

SpecDataset == InitDataset /\ [][NextDataset]_vars

----------------------------------------------------------------------------
(* The classifier's output and its argmax *)

\* nn.ReLU
ReLU(v) == IF v > 0 THEN v ELSE 0

\* the values of the last nn.Linear(512, 10) for one image: at most
\* MaxActive units away from zero
Activations ==
    {[i \in 1..OutFeatures |-> IF i \in DOMAIN f THEN f[i] ELSE 0] :
        f \in UNION {[S -> (-MaxAct..MaxAct) \ {0}] :
                        S \in {T \in SUBSET (1..OutFeatures) :
                                  Cardinality(T) <= MaxActive}}}

\* NeuralNetwork.forward on a batch holding one image: one row of logits,
\* rectified by the last layer of linear_relu_stack
Forward(z) == << [i \in 1..OutFeatures |-> ReLU(z[i])] >>

\* Tensor.flatten of a batch of rows
RECURSIVE Flatten(_)
Flatten(rows) == IF rows = << >> THEN << >>
                 ELSE Head(rows) \o Flatten(Tail(rows))

\* torch.argmax(input): the 0-based index, in the flattened input, of the
\* first of its largest values
RECURSIVE ArgmaxFrom(_, _, _)
ArgmaxFrom(v, i, best) ==
    IF i > Len(v) THEN best - 1
    ELSE ArgmaxFrom(v, i + 1, IF v[i] > v[best] THEN i ELSE best)
ArgmaxLast(t) ==
    LET v == Flatten(t)
    IN  (CHOOSE i \in DOMAIN v :
            /\ \A j \in DOMAIN v : v[j] <= v[i]
            /\ \A j \in DOMAIN v : v[j] = v[i] => j <= i) - 1
Argmax(t) == ArgmaxFrom(Flatten(t), 1, 1)

InitNet ==
    /\ KernelAtRest
    /\ file = << << >>, << >> >>
    /\ dataset = NoDataset
    /\ item = NoItem
    /\ dsLen = -1
    /\ act \in Activations
    /\ pred = << >>
    /\ label = -1

\* pred = model(X[None,:])
Predict ==
    /\ pred = << >>
    /\ pred' = Forward(act)
    /\ UNCHANGED <<act, label>>
    /\ UNCHANGED <<kernelVars, datasetVars>>

\* label = torch.argmax(pred)
Classify ==
    /\ pred # << >>
    /\ label = -1
    /\ label' = Argmax(pred)
    /\ UNCHANGED <<act, pred>>
    /\ UNCHANGED <<kernelVars, datasetVars>>

NextNet == Predict \/ Classify

SpecNet == InitNet /\ [][NextNet]_vars

----------------------------------------------------------------------------
(* Properties *)

TIdx(cell) == CHOOSE i \in DOMAIN TorchCells : TorchCells[i] = cell
AIdx(cell) == CHOOSE i \in DOMAIN AbagenCells : AbagenCells[i] = cell
Ended(cell) == report.cell = cell /\ report.status \notin {"none", "running"}
BoundAt(name, line) == ns[name].kind # "unbound" /\ ns[name].line = line

\* C1: a dataset built from the (labels, images) of a file has as many items
\* as the file has labels, and for every index ii with 0 <= ii < len(dataset)
\* dataset[ii] is the image at ii, as float32, with the label at ii.
C1_ItemPairsImageWithItsLabel ==
    /\ dsLen # -1 => dsLen = Len(file[1])
    /\ (item.status # "none" /\ 0 <= item.ii /\ item.ii < Len(file[1]))
          => /\ item.status = "ok"
             /\ item.dtype = "float32"
             /\ item.image = file[2].data[item.ii + 1]
             /\ item.label = file[1][item.ii + 1]

\* C1 witness: the second item of a uint8 dataset whose two images and two
\* labels differ has been fetched, and the length taken.
C1_Witness ==
    /\ item.status = "ok" /\ item.ii = 1
    /\ dsLen = 2
    /\ file[2].dtype = "uint8"
    /\ file[1][1] # file[1][2]
    /\ file[2].data[1] # file[2].data[2]

\* the samples of the training set that batch b holds
InBatch(i, b) == b.lo <= i /\ i < b.lo + b.len

\* C2: the training cell makes one pass over the training data: while it
\* runs it has taken one optimizer step per batch visited, over the batches
\* in dataset order, and never more than ceil(N/B) of them; a run that ends
\* normally has taken ceil(N/B) steps, every sample in exactly one stepped
\* batch.
C2_TrainingIsOnePass ==
    (nb = "torch" /\ report.cell = TIdx(CellTrain)
       /\ report.status \in {"running", "ok"})
       => /\ Len(trained) = steps
          /\ it = steps
          /\ (steps - 1) * batch_size < nTrain
          /\ \A k \in DOMAIN trained : trained[k] = [lo |-> (k - 1) * batch_size,
                 len |-> IF k * batch_size <= nTrain THEN batch_size
                         ELSE nTrain - (k - 1) * batch_size]
          /\ report.status = "ok"
                => /\ steps * batch_size >= nTrain
                   /\ \A i \in 0..(nTrain - 1) :
                         Cardinality({k \in DOMAIN trained :
                                        InBatch(i, trained[k])}) = 1

\* C2 witness: the training cell has ended over a training set of more than
\* one batch whose last batch is not full.
C2_Witness ==
    /\ nb = "torch" /\ Ended(TIdx(CellTrain)) /\ report.status = "ok"
    /\ nTrain > batch_size
    /\ nTrain % batch_size # 0

\* the samples of the dataset that the loader of the running (or last run)
\* cell iterates
LoaderSize ==
    IF report.cell \in {TIdx(CellDataLoaders), TIdx(CellEvaluate)}
    THEN nTest ELSE nTrain

C4_NoCellRebindsAnothersName ==
    [][\A n \in Names :
          (ns[n].kind # "unbound" /\ ns'[n] # ns[n])
             => (running # {} /\ ns[n].cell = Cur)]_vars

\* the names that more than one cell of a notebook assigns
SharedNames == {"a", "t", "x", "y", "X", "dist", "loss", "optimizer", "fig",
                "axs", "X_batch", "y_batch", "ax", "pred", "display",
                "Markdown"}

\* C4, amended: the cells of a notebook share the kernel's namespace; a, t,
\* x, y, X, dist, loss, optimizer, fig, axs, X_batch, y_batch, ax, pred,
\* display and Markdown are assigned by several cells, and every other name
\* is rebound only by the cell that bound it.
C4_OnlySharedNamesAreRebound ==
    [][\A n \in Names \ SharedNames :
          (ns[n].kind # "unbound" /\ ns'[n] # ns[n])
             => (running # {} /\ ns[n].cell = Cur)]_vars

\* C4 witness: the training cell has rebound loss, which the cell defining
\* the distance function had bound, while model is still as its cell bound it.
C4_Witness ==
    /\ nb = "torch"
    /\ report.cell = TIdx(CellTrain)
    /\ ns["loss"].cell = TIdx(CellTrain)
    /\ ns["loss"].kind \in {"tensor", "float"}
    /\ ns["optimizer"].cell = TIdx(CellOptimizer)
    /\ ns["model"].cell = TIdx(CellModel)

\* C5: while the cell calling torch.mean on a NumPy array runs, no name but
\* np and a changes and no statement runs twice; the cell ends only by the
\* TypeError of line 322, which changes no binding and leaves np and a as
\* lines 318 and 320 of this cell bound them.
C5_FailurePropagates ==
    [][(nb = "torch" /\ running = {TIdx(CellMeanOfArray)})
          => /\ \A n \in Names \ {"np", "a"} : ns'[n] = ns[n]
             /\ running' \in {running, {}}
             /\ running' = running => pc' \in {pc, pc + 1}
             /\ running' = {}
                   => /\ pc = 3
                      /\ report' = [cell |-> TIdx(CellMeanOfArray),
                                    status |-> "TypeError", line |-> 322]
                      /\ ns' = ns
                      /\ ns["np"] = [kind |-> "module",
                                     cell |-> TIdx(CellMeanOfArray),
                                     line |-> 318]
                      /\ ns["a"] = [kind |-> "ndarray",
                                    cell |-> TIdx(CellMeanOfArray),
                                    line |-> 320]]_vars

\* C5 witness: the cell has ended with the TypeError of torch.mean(a), and
\* the tensor u of the cell before it is still bound.
C5_Witness ==
    /\ nb = "torch"
    /\ report = [cell |-> TIdx(CellMeanOfArray), status |-> "TypeError",
                 line |-> 322]
    /\ BoundAt("a", 320)
    /\ BoundAt("np", 318)
    /\ BoundAt("u", 304)

\* every batch of the test loader holds at least as many samples as there
\* are axes (the last batch of the 10000 test samples holds 16)
TestBatchesFillAxes ==
    nTest % batch_size = 0 \/ nTest % batch_size >= NAxes

\* C6, as claimed: every run of the evaluation cell ends with four titled
\* images plotted, all from one batch.
C6_EvaluationPlotsFourImages ==
    (nb = "torch" /\ Ended(TIdx(CellEvaluate)) /\ report.status = "ok"
       /\ TestBatchesFillAxes)
       => plotted = 4 /\ Cardinality(plotFrom) = 1

\* C7: the model's output for one image is one row of 10 values, and the
\* label torch.argmax gives is in 0..9, the index of a largest value, and
\* the lowest such index.
C7_LabelIsFirstArgmax ==
    /\ pred # << >> => Len(pred) = 1 /\ Len(pred[1]) = 10
    /\ label # -1
          => /\ label \in 0..9
             /\ \A j \in 1..10 : pred[1][j] <= pred[1][label + 1]
             /\ \A j \in 1..label : pred[1][j] < pred[1][label + 1]

\* C7 witness: an output that the last ReLU made all zero, although a unit
\* was negative before it, has been labelled 0.
C7_Witness ==
    /\ label = 0
    /\ \A j \in 1..10 : pred[1][j] = 0
    /\ \E j \in 1..10 : act[j] < 0

\* C7 witness of a tie between two largest positive values.
C7_TieWitness ==
    /\ label # -1
    /\ \E i, j \in 1..10 : i < j /\ pred[1][i] = pred[1][j] /\ pred[1][i] > 0
                           /\ label = i - 1

\* C8: in the abagen notebook no two cells execute at once; the cell
\* parcellating the expression data starts only after the fetch of the
\* microarray data has completed; expression, report, expression_maxprobe
\* and report_maxprobe are bound when a cell displaying or saving them
\* runs; and the two saves write two files, the second leaving the first.
C8_AbagenIsLinear ==
    nb = "abagen"
       => /\ Cardinality(running) <= 1
          /\ running = {AIdx(CellGetExpression)}
                => first[AIdx(CellFetchMicroarray)] = "ok"
          /\ running \in {{AIdx(CellShowExpression)}, {AIdx(CellSaveExpression)}}
                => BoundAt("expression", 68)
          /\ running \in {{AIdx(CellShowReport)}, {AIdx(CellDisplayReport)}}
                => BoundAt("report", 92)
          /\ running \in {{AIdx(CellShowExpressionMaxprobe)},
                          {AIdx(CellSaveExpressionMaxprobe)}}
                => BoundAt("expression_maxprobe", 127)
          /\ running = {AIdx(CellDisplayReportMaxprobe)}
                => BoundAt("report_maxprobe", 127)
          /\ DefaultCsv # MaxprobeCsv
          /\ first[AIdx(CellSaveExpression)] # "none" => fs[DefaultCsv] = 68
          /\ first[AIdx(CellSaveExpressionMaxprobe)] # "none"
                => fs[MaxprobeCsv] = 127 /\ fs[DefaultCsv] = 68

\* C8 witness: the top-to-bottom run of the abagen notebook has ended with
\* both files written.
C8_Witness ==
    /\ nb = "abagen"
    /\ extra = 0
    /\ \A c \in 1..NCells : first[c] = "ok"
    /\ fs[DefaultCsv] = 68
    /\ fs[MaxprobeCsv] = 127

\* C9, as claimed: once every cell of the PyTorch notebook has run, a run of
\* the gradient-descent cell ends as its first run did, after 20 steps that
\* call the distance function loss and step the optimizer over t.
C9_RerunBehavesAsFirstRun ==
    (/\ nb = "torch"
     /\ \A c \in 1..NCells : first[c] # "none"
     /\ first[TIdx(CellGradientDescent)] = "ok"
     /\ Ended(TIdx(CellGradientDescent)))
       => /\ report.status = "ok"
          /\ steps = 20
          /\ ns["loss"].kind = "function"
          /\ BoundAt("optimizer", 432)

====
